---- MODULE Spec2Model ----
(***************************************************************************)
(* Outdoor Boys knowledge base builder (src/main.py): one run of           *)
(* build_knowledge_base as a state machine.  The YouTube API, the          *)
(* transcript API and the language model are the environment: each call    *)
(* returns one of a bounded set of answers, or fails.                      *)
(*                                                                         *)
(* Python strings are sequences of one-character strings, so that          *)
(* lower(), substring search, str() and the content hash are computed.     *)
(* Values parsed from the language model's JSON are tagged records:        *)
(*   [t |-> "str", s], [t |-> "num", n], [t |-> "null"],                   *)
(*   [t |-> "list", xs], [t |-> "dict", kv]  (kv: sequence of <<key, v>>). *)
(***************************************************************************)
EXTENDS Integers, Sequences, FiniteSets, TLC

(* ------------------------------ bounds --------------------------------- *)
\* longest uploads list the video API returns
MaxUploads == 2
\* longest playlists list the video API returns
MaxPlaylists == 2
\* the largest --max-videos argument tried (the smallest is -1)
MaxVideosArg == 2
\* the content hash keeps this many hex digits (the code keeps 12 of md5's 32)
HashDigits == 4

(* ------------------------------ text ----------------------------------- *)
LowerChars == <<"a","b","c","d","e","f","g","h","i","j","k","l","m","n","o","p","q","r","s","t","u","v","w","x","y","z">>
UpperChars == <<"A","B","C","D","E","F","G","H","I","J","K","L","M","N","O","P","Q","R","S","T","U","V","W","X","Y","Z">>
OtherChars == <<" ","0","1","2","3","4","5","6","7","8","9",":","-","_","'","[","]",",","{","}">>
Alphabet == LowerChars \o UpperChars \o OtherChars

IndexOf(c, chars) == CHOOSE k \in 1..Len(chars) : chars[k] = c

\* str.lower() on one character
LowerChar(c) ==
  IF \E k \in 1..Len(UpperChars) : UpperChars[k] = c
  THEN LowerChars[IndexOf(c, UpperChars)]
  ELSE c

\* str.lower()
Lower(s) == [k \in 1..Len(s) |-> LowerChar(s[k])]

\* Python's `kw in text` on strings
Contains(text, kw) ==
  \E k \in 0..(Len(text) - Len(kw)) : SubSeq(text, k + 1, k + Len(kw)) = kw

\* src/main.py:31-40, in declaration order (dict order is insertion order)
CATEGORY_KEYWORDS ==
  <<
    [category |-> "winter_survival", keywords |-> <<
        <<"w","i","n","t","e","r">>,
        <<"c","o","l","d">>,
        <<"s","n","o","w">>,
        <<"i","c","e">>,
        <<"f","r","e","e","z","e">>,
        <<"s","u","r","v","i","v","a","l">>,
        <<"s","h","e","l","t","e","r">>
    >>],
    [category |-> "building", keywords |-> <<
        <<"b","u","i","l","d">>,
        <<"c","a","b","i","n">>,
        <<"c","o","n","s","t","r","u","c","t","i","o","n">>,
        <<"s","a","u","n","a">>,
        <<"h","o","u","s","e">>,
        <<"s","h","e","d">>
    >>],
    [category |-> "fishing", keywords |-> <<
        <<"f","i","s","h">>,
        <<"f","i","s","h","i","n","g">>,
        <<"c","a","t","c","h">>,
        <<"s","a","l","m","o","n">>,
        <<"t","r","o","u","t">>,
        <<"h","a","l","i","b","u","t">>
    >>],
    [category |-> "camping", keywords |-> <<
        <<"c","a","m","p">>,
        <<"c","a","m","p","i","n","g">>,
        <<"t","e","n","t">>,
        <<"o","u","t","d","o","o","r">>
    >>],
    [category |-> "cooking", keywords |-> <<
        <<"c","o","o","k">>,
        <<"r","e","c","i","p","e">>,
        <<"f","o","o","d">>,
        <<"m","e","a","l">>,
        <<"e","a","t">>
    >>],
    [category |-> "gear", keywords |-> <<
        <<"g","e","a","r">>,
        <<"e","q","u","i","p","m","e","n","t">>,
        <<"r","e","v","i","e","w">>,
        <<"t","o","o","l">>
    >>],
    [category |-> "alaska", keywords |-> <<
        <<"a","l","a","s","k","a">>,
        <<"w","i","l","d">>,
        <<"w","i","l","d","e","r","n","e","s","s">>,
        <<"a","d","v","e","n","t","u","r","e">>
    >>],
    [category |-> "family", keywords |-> <<
        <<"f","a","m","i","l","y">>,
        <<"k","i","d","s">>,
        <<"b","o","y","s">>
    >>]
  >>

RECURSIVE InferLoop(_, _)
InferLoop(text, k) ==
  IF k > Len(CATEGORY_KEYWORDS) THEN "general"
  ELSE IF \E j \in 1..Len(CATEGORY_KEYWORDS[k].keywords) :
            Contains(text, CATEGORY_KEYWORDS[k].keywords[j])
       THEN CATEGORY_KEYWORDS[k].category
       ELSE InferLoop(text, k + 1)

_infer_category_NoLower(title, description) ==
  InferLoop(title \o <<" ">> \o description, 1)

\* OutdoorBoysScraper._infer_category
_infer_category(title, description) ==
  InferLoop(Lower(title \o <<" ">> \o description), 1)

(* --------------------------- parsed JSON ------------------------------- *)
JStr(s) == [t |-> "str", s |-> s]
JNum(n) == [t |-> "num", n |-> n]
JNull == [t |-> "null"]
JList(xs) == [t |-> "list", xs |-> xs]
JDict(kv) == [t |-> "dict", kv |-> kv]

k_survival_tips == <<"s","u","r","v","i","v","a","l","_","t","i","p","s">>
k_building_techniques == <<"b","u","i","l","d","i","n","g","_","t","e","c","h","n","i","q","u","e","s">>
k_life_lessons == <<"l","i","f","e","_","l","e","s","s","o","n","s">>
k_fishing_tips == <<"f","i","s","h","i","n","g","_","t","i","p","s">>
k_gear_recommendations == <<"g","e","a","r","_","r","e","c","o","m","m","e","n","d","a","t","i","o","n","s">>
k_dad_jokes == <<"d","a","d","_","j","o","k","e","s">>
k_recipes == <<"r","e","c","i","p","e","s">>
k_businesses_mentioned == <<"b","u","s","i","n","e","s","s","e","s","_","m","e","n","t","i","o","n","e","d">>
k_name == <<"n","a","m","e">>
k_use == <<"u","s","e">>
k_recommendation == <<"r","e","c","o","m","m","e","n","d","a","t","i","o","n">>
k_ingredients == <<"i","n","g","r","e","d","i","e","n","t","s">>
k_steps == <<"s","t","e","p","s">>
k_cooking_method == <<"c","o","o","k","i","n","g","_","m","e","t","h","o","d">>
k_type == <<"t","y","p","e">>
k_location == <<"l","o","c","a","t","i","o","n">>
k_contact == <<"c","o","n","t","a","c","t">>
k_website == <<"w","e","b","s","i","t","e">>
k_facts == <<"f","a","c","t","s">>
k_jokes == <<"j","o","k","e","s">>
k_businesses == <<"b","u","s","i","n","e","s","s","e","s">>

s_Unknown == <<"U","n","k","n","o","w","n">>
s_UnknownRecipe == <<"U","n","k","n","o","w","n"," ","R","e","c","i","p","e">>
s_None == <<"N","o","n","e">>
s_other == <<"o","t","h","e","r">>
s_From == <<"F","r","o","m"," ">>
s_Mentioned == <<"M","e","n","t","i","o","n","e","d"," ","i","n"," ">>
s_FromDesc == <<"F","r","o","m"," ","v","i","d","e","o"," ","d","e","s","c","r","i","p","t","i","o","n",":"," ">>
s_campfire == <<"c","a","m","p","f","i","r","e">>

HasKey(d, key) == \E k \in 1..Len(d.kv) : d.kv[k][1] = key

\* dict.get(key, default) on a parsed JSON object (the last duplicate wins)
Get(d, key, default) ==
  IF HasKey(d, key)
  THEN d.kv[CHOOSE k \in 1..Len(d.kv) :
              /\ d.kv[k][1] = key
              /\ \A m \in (k + 1)..Len(d.kv) : d.kv[m][1] # key][2]
  ELSE default

\* Python truthiness
Truthy(v) ==
  CASE v.t = "str" -> v.s # <<>>
    [] v.t = "num" -> v.n # 0
    [] v.t = "null" -> FALSE
    [] v.t = "list" -> v.xs # <<>>
    [] v.t = "dict" -> v.kv # <<>>

\* iter(v) succeeds
Iterable(v) == v.t \in {"list", "str", "dict"}

\* the items a for loop over v visits
Iter(v) ==
  CASE v.t = "list" -> v.xs
    [] v.t = "str" -> [k \in 1..Len(v.s) |-> JStr(<<v.s[k]>>)]
    [] v.t = "dict" -> [k \in 1..Len(v.kv) |-> JStr(v.kv[k][1])]

RECURSIVE Digits(_)
Digits(n) ==
  IF n < 10 THEN <<OtherChars[n + 2]>>
  ELSE Digits(n \div 10) \o <<OtherChars[(n % 10) + 2]>>

RECURSIVE PyText(_, _)
RECURSIVE JoinText(_, _)
\* ", ".join of the repr of each item
JoinText(xs, isDict) ==
  IF xs = <<>> THEN <<>>
  ELSE LET h == IF isDict
                THEN PyText(JStr(Head(xs)[1]), TRUE) \o <<":", " ">>
                       \o PyText(Head(xs)[2], TRUE)
                ELSE PyText(Head(xs), TRUE)
       IN IF Len(xs) = 1 THEN h
          ELSE h \o <<",", " ">> \o JoinText(Tail(xs), isDict)

\* str(v) (quoted = FALSE) and repr(v) (quoted = TRUE) of a parsed JSON value
PyText(v, quoted) ==
  CASE v.t = "str" -> IF quoted THEN <<"'">> \o v.s \o <<"'">> ELSE v.s
    [] v.t = "num" -> IF v.n < 0 THEN <<"-">> \o Digits(0 - v.n) ELSE Digits(v.n)
    [] v.t = "null" -> s_None
    [] v.t = "list" -> <<"[">> \o JoinText(v.xs, FALSE) \o <<"]">>
    [] v.t = "dict" -> <<"{">> \o JoinText(v.kv, TRUE) \o <<"}">>

PyStr(v) == PyText(v, FALSE)

(* --------------------------- generate_id ------------------------------- *)
HashMod == 16 ^ HashDigits

RECURSIVE HashLoop(_, _)
HashLoop(h, s) ==
  IF s = <<>> THEN h
  ELSE HashLoop((h * 31 + IndexOf(Head(s), Alphabet)) % HashMod, Tail(s))

\* generate_id: a digest of the content's characters cut to a fixed width.
\* md5 is replaced by a polynomial digest: what the program relies on is
\* that the id is a function of the text alone.
generate_id(content) == HashLoop(7, content)

\* content.encode() needs a str
CanEncode(v) == v.t = "str"


(* ------------------------- the environment ----------------------------- *)
\* the videos the uploads playlist can hold (title, description)
VideoKinds ==
  { [title |-> <<"W","i","n","t","e","r"," ","F","i","s","h","i","n","g">>, description |-> <<>>],
    [title |-> <<"B","o","a","t"," ","D","a","y">>, description |-> <<"c","a","t","c","h"," ","S","A","L","M","O","N">>] }

\* uploads lists: video k of a list has video_id k (ids are distinct)
UploadLists ==
  UNION { { [k \in 1..n |-> [video_id |-> k, title |-> f[k].title,
                             description |-> f[k].description]] :
            f \in [1..n -> VideoKinds] } : n \in 0..MaxUploads }

\* the playlists the channel can hold (id, title, description)
PlaylistKinds ==
  { [id |-> "PL1", title |-> <<"K","i","d","s"," ","B","u","i","l","d">>, description |-> <<>>],
    [id |-> "PL2", title |-> <<"A","d","v","i","c","e">>, description |-> <<"V","l","o","g">>] }

\* playlists lists: the API lists a playlist once
PlaylistLists ==
  { ps \in UNION { [1..n -> PlaylistKinds] : n \in 0..MaxPlaylists } :
      \A j, k \in 1..Len(ps) : ps[j].id = ps[k].id => j = k }

MaxVideosArgs == (0 - 1)..MaxVideosArg

gearAxe ==
  JDict(<< <<k_name, JStr(<<"a","x","e">>)>>, <<k_use, JStr(<<"d","r","y">>)>> >>)
recipeStew ==
  JDict(<< <<k_name, JStr(<<"s","t","e","w">>)>>, <<k_ingredients, JList(<<JStr(<<"a","x","e">>)>>)>> >>)
recipeNoName ==
  JDict(<< <<k_steps, JList(<<JStr(<<"d","r","y">>)>>)>> >>)
bizLodge ==
  JDict(<< <<k_name, JStr(<<"L","o","d","g","e">>)>>, <<k_type, JStr(<<"l","o","d","g","e">>)>> >>)
bizNoName ==
  JDict(<< <<k_type, JStr(<<"l","o","d","g","e">>)>> >>)

\* what the model's text parses to, when it parses (transcript prompt): an
\* object of the requested schema, a list, an object with a null field
FactsJson ==
  { JDict(<< <<k_survival_tips, JList(<<JStr(<<"d","r","i","n","k"," ","m","e","l","t">>)>>)>>,
             <<k_building_techniques, JList(<<JStr(<<"d","r","y">>)>>)>>,
             <<k_life_lessons, JList(<<>>)>>,
             <<k_fishing_tips, JList(<<JStr(<<"p","u","n">>)>>)>>,
             <<k_gear_recommendations,
               JList(<<gearAxe, JStr(<<"a","x","e">>), JNum(5), JNull>>)>>,
             <<k_dad_jokes, JList(<<JStr(<<"p","u","n">>)>>)>>,
             <<k_recipes, JList(<<recipeStew, JStr(<<"s","t","e","w">>), recipeNoName>>)>>,
             <<k_businesses_mentioned,
               JList(<<bizLodge, bizNoName, JStr(<<"L","o","d","g","e">>)>>)>> >>),
    JList(<<JStr(<<"d","r","y">>)>>),
    JDict(<< <<k_survival_tips, JNull>> >>) }

\* what the model's text parses to, when it parses (description prompt)
DescJson ==
  { JList(<<>>),
    JList(<<bizLodge, bizNoName>>),
    JNull }

\* an answer of the language-model API: the call raises ("error"), or it
\* returns text that json.loads rejects ("garbage") or parses to val ("json")
Replies(json) ==
  { [kind |-> "error", val |-> JNull], [kind |-> "garbage", val |-> JNull] }
    \cup { [kind |-> "json", val |-> v] : v \in json }

\* the value of the try block at src/main.py:159-165 / 190-196: the parsed
\* text, or an exception
TryParse(reply) ==
  IF reply.kind = "json" THEN [ok |-> TRUE, val |-> reply.val]
  ELSE [ok |-> FALSE, val |-> JNull]

\* what the history keeps of an answer: "failed", or the parsed value's type
ReplyTag(reply) == IF TryParse(reply).ok THEN reply.val.t ELSE "failed"

\* the literal returned at src/main.py:134 and 168
EmptyResult ==
  JDict(<< <<k_facts, JList(<<>>)>>, <<k_jokes, JList(<<>>)>>,
           <<k_businesses, JList(<<>>)>>, <<k_recipes, JList(<<>>)>> >>)

\* list[:n] for any integer n
PySlicePrefix(s, n) ==
  IF n >= 0
  THEN SubSeq(s, 1, IF n < Len(s) THEN n ELSE Len(s))
  ELSE SubSeq(s, 1, IF Len(s) + n > 0 THEN Len(s) + n ELSE 0)

(* ---------------------------- aggregator ------------------------------- *)
\* the fields of the extraction result in the order the loop body reads them
\* (src/main.py:252, 264, 276, 288, 300, 316, 326, 340)
Fields ==
  << [key |-> k_survival_tips, kind |-> "survival_tip"],
     [key |-> k_building_techniques, kind |-> "building_technique"],
     [key |-> k_life_lessons, kind |-> "life_lesson"],
     [key |-> k_fishing_tips, kind |-> "fishing_tip"],
     [key |-> k_gear_recommendations, kind |-> "gear"],
     [key |-> k_dad_jokes, kind |-> "joke"],
     [key |-> k_recipes, kind |-> "recipe"],
     [key |-> k_businesses_mentioned, kind |-> "business"] >>

Fact(content, type, cat, tags, video) ==
  [id |-> generate_id(content), type |-> type, content |-> content,
   category |-> cat, videoId |-> video.video_id, videoTitle |-> video.title,
   tags |-> tags]

GearContent_DictOnly(gear) ==
  LET g == IF gear.t = "dict" THEN gear ELSE JDict(<<>>)
  IN PyStr(Get(g, k_name, JStr(s_Unknown))) \o <<":", " ">>
       \o PyStr(Get(g, k_use, JStr(<<>>))) \o <<" ", "-", " ">>
       \o PyStr(Get(g, k_recommendation, JStr(<<>>)))

\* src/main.py:302-304
GearContent(gear) ==
  IF gear.t = "dict"
  THEN PyStr(Get(gear, k_name, JStr(s_Unknown))) \o <<":", " ">>
         \o PyStr(Get(gear, k_use, JStr(<<>>))) \o <<" ", "-", " ">>
         \o PyStr(Get(gear, k_recommendation, JStr(<<>>)))
  ELSE PyStr(gear)

\* src/main.py:328-337
RecipeRecord(recipe, video) ==
  [id |-> generate_id(Get(recipe, k_name, JStr(<<>>)).s),
   name |-> Get(recipe, k_name, JStr(s_UnknownRecipe)),
   description |-> s_From \o video.title,
   ingredients |-> Get(recipe, k_ingredients, JList(<<>>)),
   steps |-> Get(recipe, k_steps, JList(<<>>)),
   cookingMethod |-> Get(recipe, k_cooking_method, JStr(s_campfire)),
   videoId |-> video.video_id, videoTitle |-> video.title]

\* src/main.py:342-351 and 357-366
BusinessRecord(biz, video, prefix) ==
  [id |-> generate_id(Get(biz, k_name, JStr(<<>>)).s),
   name |-> Get(biz, k_name, JStr(<<>>)),
   type |-> Get(biz, k_type, JStr(s_other)),
   location |-> Get(biz, k_location, JStr(<<>>)),
   contact |-> Get(biz, k_contact, JStr(<<>>)),
   website |-> Get(biz, k_website, JStr(<<>>)),
   videoReferences |-> <<[videoId |-> video.video_id, videoTitle |-> video.title]>>,
   description |-> prefix \o video.title]

\* `isinstance(biz, dict) and biz.get('name')`
BizAccepted(biz) == biz.t = "dict" /\ Truthy(Get(biz, k_name, JNull))

\* one pass of a loop body: st is [ok, facts, jokes, recipes, businesses];
\* ok = FALSE stands for an exception raised by the body
AddEntry(st, entry, kind, cat, video) ==
  CASE kind = "survival_tip" ->
         IF CanEncode(entry)
         THEN [st EXCEPT !.facts = Append(@, Fact(entry.s, kind, cat, <<"survival", cat>>, video))]
         ELSE [st EXCEPT !.ok = FALSE]
    [] kind = "building_technique" ->
         IF CanEncode(entry)
         THEN [st EXCEPT !.facts = Append(@, Fact(entry.s, kind, "building", <<"building", "construction">>, video))]
         ELSE [st EXCEPT !.ok = FALSE]
    [] kind = "life_lesson" ->
         IF CanEncode(entry)
         THEN [st EXCEPT !.facts = Append(@, Fact(entry.s, kind, "life_lessons", <<"wisdom", "philosophy">>, video))]
         ELSE [st EXCEPT !.ok = FALSE]
    [] kind = "fishing_tip" ->
         IF CanEncode(entry)
         THEN [st EXCEPT !.facts = Append(@, Fact(entry.s, kind, "fishing", <<"fishing">>, video))]
         ELSE [st EXCEPT !.ok = FALSE]
    [] kind = "gear" ->
         [st EXCEPT !.facts = Append(@, Fact(GearContent(entry), kind, "gear", <<"gear", "equipment">>, video))]
    [] kind = "joke" ->
         IF CanEncode(entry)
         THEN [st EXCEPT !.jokes = Append(@, [id |-> generate_id(entry.s), punchline |-> entry.s,
                                              context |-> video.title, videoId |-> video.video_id,
                                              videoTitle |-> video.title])]
         ELSE [st EXCEPT !.ok = FALSE]
    [] kind = "recipe" ->
         IF entry.t # "dict" THEN st
         ELSE IF CanEncode(Get(entry, k_name, JStr(<<>>)))
         THEN [st EXCEPT !.recipes = Append(@, RecipeRecord(entry, video))]
         ELSE [st EXCEPT !.ok = FALSE]
    [] kind = "business" ->
         IF ~BizAccepted(entry) THEN st
         ELSE IF CanEncode(Get(entry, k_name, JStr(<<>>)))
         THEN [st EXCEPT !.businesses = Append(@, BusinessRecord(entry, video, s_Mentioned))]
         ELSE [st EXCEPT !.ok = FALSE]
    [] kind = "desc_business" ->
         IF ~BizAccepted(entry) THEN st
         ELSE IF CanEncode(Get(entry, k_name, JStr(<<>>)))
         THEN [st EXCEPT !.businesses = Append(@, BusinessRecord(entry, video, s_FromDesc))]
         ELSE [st EXCEPT !.ok = FALSE]

RECURSIVE EntryLoop(_, _, _, _, _)
\* `for entry in items: <body>`; an exception ends the loop
EntryLoop(st, items, kind, cat, video) ==
  IF ~st.ok \/ items = <<>> THEN st
  ELSE EntryLoop(AddEntry(st, Head(items), kind, cat, video), Tail(items), kind, cat, video)

\* `for entry in extracted.get(key, []): <body>`: extracted.get needs a dict
\* (AttributeError otherwise) and the value must be iterable (TypeError)
FieldLoop(st, ext, field, cat, video) ==
  IF ~st.ok THEN st
  ELSE IF ext.t # "dict" THEN [st EXCEPT !.ok = FALSE]
  ELSE LET v == Get(ext, field.key, JList(<<>>))
       IN IF ~Iterable(v) THEN [st EXCEPT !.ok = FALSE]
          ELSE EntryLoop(st, Iter(v), field.kind, cat, video)

RECURSIVE FieldsFrom(_, _, _, _, _)
\* src/main.py:251-351: the eight loops, in order
FieldsFrom(st, k, ext, cat, video) ==
  IF k > Len(Fields) THEN st
  ELSE FieldsFrom(FieldLoop(st, ext, Fields[k], cat, video), k + 1, ext, cat, video)

\* src/main.py:355-366
DescLoop(st, desc, video) ==
  IF ~Iterable(desc) THEN [st EXCEPT !.ok = FALSE]
  ELSE EntryLoop(st, Iter(desc), "desc_business", "", video)

(* ------------------------------ state ---------------------------------- *)
VARIABLES
  pc,               \* position in main / build_knowledge_base
  anthropic,        \* scraper.anthropic is a client (TRUE) or None (FALSE)
  max_videos,       \* args.max_videos
  out_dir,          \* the output directory: "absent", "existed" or "created"
  output,           \* the files written by this run: name -> content
  playlists,        \* get_channel_playlists()
  categories,       \* the categories dict, in insertion order
  uploads,          \* get_all_channel_videos()
  videos,           \* uploads[:max_videos]
  i,                \* index (1-based) of the video the loop is at
  transcript_data,  \* get_transcript(...) of the current video
  extracted,        \* extract_facts_with_llm(...) of the current video
  category,         \* _infer_category(...) of the current video
  all_facts, all_businesses, all_jokes, all_recipes,
  llm_calls,        \* history: the calls of messages.create, in order
  attempted         \* history: the calls of get_transcript, in order

vars ==
  <<pc, anthropic, max_videos, out_dir, output, playlists, categories, uploads,
    videos, i, transcript_data, extracted, category, all_facts, all_businesses,
    all_jokes, all_recipes, llm_calls, attempted>>

mem == <<playlists, categories, uploads, videos, i, transcript_data, extracted,
         category, all_facts, all_businesses, all_jokes, all_recipes>>
hist == <<llm_calls, attempted>>
disk == <<out_dir, output>>
args == <<anthropic, max_videos>>
colls == <<all_facts, all_businesses, all_jokes, all_recipes>>

NoFiles == [f \in {} |-> 0]

\* the locals of build_knowledge_base before it has assigned them
MemInit ==
  /\ playlists = <<>>
  /\ categories = <<>>
  /\ uploads = <<>>
  /\ videos = <<>>
  /\ i = 0
  /\ transcript_data = "unset"
  /\ extracted = JNull
  /\ category = "unset"
  /\ all_facts = <<>>
  /\ all_businesses = <<>>
  /\ all_jokes = <<>>
  /\ all_recipes = <<>>

Init ==
  /\ pc = "main"
  /\ anthropic = FALSE
  /\ max_videos = 10
  /\ out_dir \in {"absent", "existed"}
  /\ output = NoFiles
  /\ MemInit
  /\ llm_calls = <<>>
  /\ attempted = <<>>

\* the process ends with its memory: an uncaught exception ("crashed") or a
\* signal ("killed"); what stays is the disk.  The caller says what becomes
\* of llm_calls.
Exit(how) ==
  /\ pc' = how
  /\ playlists' = <<>>
  /\ categories' = <<>>
  /\ uploads' = <<>>
  /\ videos' = <<>>
  /\ i' = 0
  /\ transcript_data' = "unset"
  /\ extracted' = JNull
  /\ category' = "unset"
  /\ all_facts' = <<>>
  /\ all_businesses' = <<>>
  /\ all_jokes' = <<>>
  /\ all_recipes' = <<>>
  /\ UNCHANGED <<args, disk, attempted>>

(* ----------------------------- actions --------------------------------- *)
CurrentVideo == videos[i]

VideoCategory_TitleOnly(video) == _infer_category(video.title, <<>>)

\* src/main.py:249
VideoCategory(video) == _infer_category(video.title, video.description)

LlmCall(call, reply) ==
  [video_id |-> CurrentVideo.video_id, call |-> call, reply |-> ReplyTag(reply)]

\* the loop's next position after video i: the next video, or the write step
NextVideo ==
  /\ i' = i + 1
  /\ pc' = IF i + 1 > Len(videos) THEN "save" ELSE "transcript"

\* main: parse the arguments and build the scraper
Main ==
  /\ pc = "main"
  /\ \E key \in BOOLEAN, n \in MaxVideosArgs :
       /\ anthropic' = key
       /\ max_videos' = n
  /\ pc' = "makedirs"
  /\ UNCHANGED <<disk, mem, hist>>

MakeDirs_WritesMetadata ==
  /\ pc = "makedirs"
  /\ out_dir' = IF out_dir = "absent" THEN "created" ELSE out_dir
  /\ output' = ("metadata.json" :> [totalVideos |-> 0, totalFacts |-> 0,
                                    version |-> "1.0.0", channelName |-> "Outdoor Boys"])
  /\ pc' = "playlists"
  /\ UNCHANGED <<args, mem, hist>>

\* os.makedirs(output_dir, exist_ok=True) and the empty collections
MakeDirs ==
  /\ pc = "makedirs"
  /\ out_dir' = IF out_dir = "absent" THEN "created" ELSE out_dir
  /\ pc' = "playlists"
  /\ UNCHANGED <<args, output, mem, hist>>

\* categories[p['id']] = {...}: a new key is appended, an old one replaced
DictPut(d, obj) ==
  IF \E k \in 1..Len(d) : d[k].id = obj.id
  THEN [k \in 1..Len(d) |-> IF d[k].id = obj.id THEN obj ELSE d[k]]
  ELSE Append(d, obj)

RECURSIVE CategoriesOf(_, _)
\* src/main.py:223-231
CategoriesOf(d, ps) ==
  IF ps = <<>> THEN d
  ELSE CategoriesOf(
         DictPut(d, [id |-> Head(ps).id, name |-> Head(ps).title,
                     description |-> Head(ps).description,
                     playlistId |-> Head(ps).id,
                     category |-> Head(ps).category, factCount |-> 0]),
         Tail(ps))

\* get_channel_playlists returns: every playlist with its inferred category
FetchPlaylists ==
  /\ pc = "playlists"
  /\ \E items \in PlaylistLists :
       /\ playlists' = [k \in 1..Len(items) |->
                          [id |-> items[k].id, title |-> items[k].title,
                           description |-> items[k].description,
                           category |-> _infer_category(items[k].title, <<>>)]]
       /\ categories' = CategoriesOf(categories, playlists')
  /\ pc' = "videos"
  /\ UNCHANGED <<args, disk, hist, uploads, videos, i, transcript_data,
                 extracted, category, colls>>

\* get_channel_playlists raises: nothing catches it
FetchPlaylistsFails ==
  /\ pc = "playlists"
  /\ Exit("crashed")
  /\ UNCHANGED llm_calls

\* get_all_channel_videos returns and the list is cut to max_videos
FetchVideos ==
  /\ pc = "videos"
  /\ \E up \in UploadLists :
       /\ uploads' = up
       /\ videos' = PySlicePrefix(up, max_videos)
  /\ i' = 1
  /\ pc' = IF videos' = <<>> THEN "save" ELSE "transcript"
  /\ UNCHANGED <<args, disk, hist, playlists, categories, transcript_data,
                 extracted, category, colls>>

\* get_all_channel_videos raises: nothing catches it
FetchVideosFails ==
  /\ pc = "videos"
  /\ Exit("crashed")
  /\ UNCHANGED llm_calls

\* get_transcript returns a transcript
TranscriptFetched ==
  /\ pc = "transcript"
  /\ attempted' = Append(attempted, [video_id |-> CurrentVideo.video_id, found |-> TRUE])
  /\ transcript_data' = "dict"
  /\ pc' = "extract"
  /\ UNCHANGED <<args, disk, llm_calls, playlists, categories, uploads, videos,
                 i, extracted, category, colls>>

TranscriptMissing_NoContinue ==
  /\ pc = "transcript"
  /\ attempted' = Append(attempted, [video_id |-> CurrentVideo.video_id, found |-> FALSE])
  /\ transcript_data' = "None"
  /\ pc' = "extract"
  /\ UNCHANGED <<args, disk, llm_calls, playlists, categories, uploads, videos,
                 i, extracted, category, colls>>

\* get_transcript catches the failure and returns None: `continue`
TranscriptMissing ==
  /\ pc = "transcript"
  /\ attempted' = Append(attempted, [video_id |-> CurrentVideo.video_id, found |-> FALSE])
  /\ transcript_data' = "None"
  /\ NextVideo
  /\ UNCHANGED <<args, disk, llm_calls, playlists, categories, uploads, videos,
                 extracted, category, colls>>

\* no answer: the scraper has no client to ask
NoReply == [kind |-> "none", val |-> JNull]

extract_facts_with_llm_NoExcept(client, reply) ==
  IF ~client
  THEN [called |-> FALSE, raised |-> FALSE, val |-> EmptyResult]
  ELSE [called |-> TRUE, raised |-> ~TryParse(reply).ok, val |-> TryParse(reply).val]

\* extract_facts_with_llm, given the API's answer: whether the API was called,
\* whether an exception leaves the method, and the value returned
extract_facts_with_llm(client, reply) ==
  IF ~client
  THEN [called |-> FALSE, raised |-> FALSE, val |-> EmptyResult]
  ELSE [called |-> TRUE, raised |-> FALSE,
        val |-> IF TryParse(reply).ok THEN TryParse(reply).val ELSE EmptyResult]

extract_businesses_from_description_NoKeyCheck(client, reply) ==
  [called |-> TRUE, raised |-> FALSE,
   val |-> IF TryParse(reply).ok THEN TryParse(reply).val ELSE JList(<<>>)]

\* extract_businesses_from_description, likewise
extract_businesses_from_description(client, reply) ==
  IF ~client
  THEN [called |-> FALSE, raised |-> FALSE, val |-> JList(<<>>)]
  ELSE [called |-> TRUE, raised |-> FALSE,
        val |-> IF TryParse(reply).ok THEN TryParse(reply).val ELSE JList(<<>>)]

\* src/main.py:248
ExtractFacts ==
  /\ pc = "extract"
  /\ \E reply \in IF anthropic THEN Replies(FactsJson) ELSE {NoReply} :
       LET r == extract_facts_with_llm(anthropic, reply)
           called == IF r.called THEN Append(llm_calls, LlmCall("facts", reply))
                     ELSE llm_calls
       IN IF r.raised
          THEN /\ Exit("crashed")
               /\ llm_calls' = called
          ELSE /\ extracted' = r.val
               /\ llm_calls' = called
               /\ pc' = "aggregate"
               /\ UNCHANGED <<args, disk, attempted, playlists, categories,
                              uploads, videos, i, transcript_data, category, colls>>

\* src/main.py:249-351: infer the category and fan the result out
Aggregate ==
  /\ pc = "aggregate"
  /\ LET cat == VideoCategory(CurrentVideo)
         st == FieldsFrom([ok |-> TRUE, facts |-> all_facts, jokes |-> all_jokes,
                           recipes |-> all_recipes, businesses |-> all_businesses],
                          1, extracted, cat, CurrentVideo)
     IN IF st.ok
        THEN /\ category' = cat
             /\ all_facts' = st.facts
             /\ all_jokes' = st.jokes
             /\ all_recipes' = st.recipes
             /\ all_businesses' = st.businesses
             /\ pc' = "describe"
             /\ UNCHANGED <<args, disk, hist, playlists, categories, uploads,
                            videos, i, transcript_data, extracted>>
        ELSE /\ Exit("crashed")
             /\ UNCHANGED llm_calls

\* src/main.py:353-368: extract_businesses_from_description, its loop, the sleep
DescribeBusinesses ==
  /\ pc = "describe"
  /\ \E reply \in IF anthropic THEN Replies(DescJson) ELSE {NoReply} :
       LET r == extract_businesses_from_description(anthropic, reply)
           called == IF r.called THEN Append(llm_calls, LlmCall("desc", reply))
                     ELSE llm_calls
           st == DescLoop([ok |-> TRUE, facts |-> all_facts, jokes |-> all_jokes,
                           recipes |-> all_recipes, businesses |-> all_businesses],
                          r.val, CurrentVideo)
       IN IF ~r.raised /\ st.ok
          THEN /\ all_businesses' = st.businesses
               /\ llm_calls' = called
               /\ NextVideo
               /\ UNCHANGED <<args, disk, attempted, playlists, categories,
                              uploads, videos, transcript_data, extracted,
                              category, all_facts, all_jokes, all_recipes>>
          ELSE /\ Exit("crashed")
               /\ llm_calls' = called

\* the six files in the order they are written (src/main.py:385-406)
FileOrder ==
  <<"metadata.json", "categories.json", "facts.json", "businesses.json",
    "jokes.json", "recipes.json">>

\* what json.dump is given for each file (lastUpdated, the clock, is left out)
FileContent(name) ==
  CASE name = "metadata.json" ->
         [totalVideos |-> Len(videos), totalFacts |-> Len(all_facts),
          version |-> "1.0.0", channelName |-> "Outdoor Boys"]
    [] name = "categories.json" -> categories
    [] name = "facts.json" -> all_facts
    [] name = "businesses.json" -> all_businesses
    [] name = "jokes.json" -> all_jokes
    [] name = "recipes.json" -> all_recipes

\* one `with open(...) as f: json.dump(...)` of the write step
SaveFile ==
  /\ pc = "save"
  /\ LET k == Cardinality(DOMAIN output) + 1
     IN /\ output' = output @@ (FileOrder[k] :> FileContent(FileOrder[k]))
        /\ pc' = IF k = Len(FileOrder) THEN "done" ELSE "save"
  /\ UNCHANGED <<args, out_dir, mem, hist>>

\* the process is terminated from outside
Kill ==
  /\ pc \notin {"done", "crashed", "killed"}
  /\ Exit("killed")
  /\ UNCHANGED llm_calls

Next ==
  \/ Main
  \/ MakeDirs
  \/ FetchPlaylists
  \/ FetchPlaylistsFails
  \/ FetchVideos
  \/ FetchVideosFails
  \/ TranscriptFetched
  \/ TranscriptMissing
  \/ ExtractFacts
  \/ Aggregate
  \/ DescribeBusinesses
  \/ SaveFile
  \/ Kill

Spec == Init /\ [][Next]_vars

(* ------------------- category inference on its own -------------------- *)
\* titles of at most MaxWords words
MaxWords == 2

Vocabulary ==
  { <<"W","i","n","t","e","r">>,
    <<"F","I","S","H","I","N","G">>,
    <<"c","a","m","p">>,
    <<"A","d","v","i","c","e">>,
    <<"B","o","a","t">>,
    <<"w","e","a","t","h","e","r">>,
    <<"K","i","d","s">>,
    <<"t","o","o","l">> }

InferDescriptions == { <<>>, <<"S","n","o","w">>, <<"b","o","y","s">> }

RECURSIVE TitlesOf(_)
TitlesOf(n) ==
  IF n = 0 THEN { <<>> }
  ELSE TitlesOf(n - 1)
         \cup { w : w \in Vocabulary }
         \cup { p \o <<" ">> \o w : p \in TitlesOf(n - 1) \ { <<>> }, w \in Vocabulary }

InferTitles == TitlesOf(MaxWords)

InitInfer ==
  /\ pc = "infer"
  /\ anthropic = FALSE
  /\ max_videos = 10
  /\ out_dir = "absent"
  /\ output = NoFiles
  /\ playlists = <<>>
  /\ categories = <<>>
  /\ uploads = <<>>
  /\ \E title \in InferTitles, description \in InferDescriptions :
       videos = <<[video_id |-> 1, title |-> title, description |-> description]>>
  /\ i = 1
  /\ transcript_data = "unset"
  /\ extracted = JNull
  /\ category = "unset"
  /\ all_facts = <<>>
  /\ all_businesses = <<>>
  /\ all_jokes = <<>>
  /\ all_recipes = <<>>
  /\ llm_calls = <<>>
  /\ attempted = <<>>

\* one call of _infer_category
InferStep ==
  /\ pc = "infer"
  /\ category' = _infer_category(CurrentVideo.title, CurrentVideo.description)
  /\ pc' = "inferred"
  /\ UNCHANGED <<args, disk, hist, playlists, categories, uploads, videos, i,
                 transcript_data, extracted, colls>>

NextInfer == InferStep

SpecInfer == InitInfer /\ [][NextInfer]_vars

(* ------------------------------ claims --------------------------------- *)
Last(s) == s[Len(s)]
Range(s) == { s[k] : k \in 1..Len(s) }
\* every record of the four collections satisfies P
AllRecords(P(_)) ==
  /\ \A r \in Range(all_facts) : P(r)
  /\ \A r \in Range(all_jokes) : P(r)
  /\ \A r \in Range(all_recipes) : P(r)
  /\ \A r \in Range(all_businesses) : P(r)
PreWrite ==
  {"main", "makedirs", "playlists", "videos", "transcript", "extract",
   "aggregate", "describe"}
AfterLoop == IF i = Len(videos) THEN "save" ELSE "transcript"

\* the video a record comes from (a business keeps it in videoReferences)
VideoIdOf(r) ==
  IF "videoId" \in DOMAIN r THEN r.videoId ELSE r.videoReferences[1].videoId

\* ---- C1
FailedIds == { a.video_id : a \in { x \in Range(attempted) : ~x.found } }

C1_Inv ==
  \A v \in FailedIds :
    /\ AllRecords(LAMBDA r : VideoIdOf(r) # v)
    /\ \A c \in Range(llm_calls) : c.video_id # v

C1_Step ==
  (pc = "transcript" /\ attempted' # attempted /\ ~Last(attempted').found)
    => /\ colls' = colls
       /\ llm_calls' = llm_calls
       /\ videos' = videos
       /\ i' = i + 1
       /\ pc' = AfterLoop

\* C1: a video whose transcript fetch fails gets no record in any of the four
\* collections and no language-model call, and the failing fetch moves the
\* loop to the next video, or to the write step after the last video.
C1_TranscriptFailureSkipsVideo == [][C1_Step]_vars /\ []C1_Inv

C1_Witness ==
  /\ pc = "done"
  /\ anthropic
  /\ Len(attempted) = 2
  /\ ~attempted[1].found
  /\ attempted[2].found
  /\ \E f \in Range(output["facts.json"]) : f.videoId = 2

\* ---- C2
C2_Step ==
  /\ (pc = "extract" /\ llm_calls' # llm_calls /\ Last(llm_calls').reply = "failed")
       => /\ pc' = "aggregate"
          /\ extracted' = EmptyResult
          /\ colls' = colls
          /\ i' = i
  /\ (pc = "aggregate" /\ extracted = EmptyResult /\ pc' # "killed")
       => /\ pc' = "describe"
          /\ colls' = colls
  /\ (pc = "describe" /\ llm_calls' # llm_calls /\ Last(llm_calls').reply = "failed")
       => /\ colls' = colls
          /\ videos' = videos
          /\ i' = i + 1
          /\ pc' = AfterLoop

\* C2: a language-model call that raises or returns unparseable text yields
\* an empty extraction: the step does not end the run, the records collected
\* so far are unchanged, and the loop goes on to the next video or the write
\* step.
C2_LlmFailureYieldsNothing == [][C2_Step]_vars

C2_Witness ==
  /\ pc = "done"
  /\ Len(videos) = 2
  /\ [video_id |-> 1, call |-> "facts", reply |-> "failed"] \in Range(llm_calls)
  /\ [video_id |-> 1, call |-> "desc", reply |-> "failed"] \in Range(llm_calls)
  /\ AllRecords(LAMBDA r : VideoIdOf(r) = 2)
  /\ output["facts.json"] # <<>>
  /\ output["businesses.json"] # <<>>

\* ---- C3
WrongShapeFacts(e) ==
  \/ e.t # "dict"
  \/ \E k \in 1..Len(Fields) :
       HasKey(e, Fields[k].key) /\ Get(e, Fields[k].key, JNull).t # "list"

C3_Step ==
  /\ (pc = "aggregate" /\ WrongShapeFacts(extracted) /\ pc' # "killed")
       => /\ pc' = "describe"
          /\ colls' = colls
  /\ (pc = "describe" /\ llm_calls' # llm_calls
        /\ Last(llm_calls').reply \notin {"failed", "list"})
       => /\ colls' = colls
          /\ pc' = AfterLoop

\* C3: a language-model answer that parses as JSON but has the wrong shape
\* (no mapping at the top of the transcript extraction, no list at the top of
\* the description extraction, a named field that is no list) contributes
\* nothing and the run goes on to the next video or the write step.
C3_WrongShapeYieldsNothing == [][C3_Step]_vars

\* ---- C4
PlaylistIds == { p.id : p \in Range(playlists) }

\* C4: without a language-model credential no language-model call is made,
\* the four collections stay empty and are written empty, and categories.json
\* holds one category object per fetched playlist id.
C4_NoCredentialNoExtraction ==
  (pc # "main" /\ ~anthropic)
    => /\ llm_calls = <<>>
       /\ all_facts = <<>> /\ all_jokes = <<>>
       /\ all_recipes = <<>> /\ all_businesses = <<>>
       /\ \A name \in DOMAIN output \cap
                        {"facts.json", "jokes.json", "recipes.json", "businesses.json"} :
            output[name] = <<>>
       /\ (pc \in {"save", "done"} /\ "categories.json" \in DOMAIN output)
            => /\ Len(output["categories.json"]) = Cardinality(PlaylistIds)
               /\ { c.id : c \in Range(output["categories.json"]) } = PlaylistIds
       /\ (pc = "done") => DOMAIN output = Range(FileOrder)

C4_Witness ==
  /\ pc = "done"
  /\ ~anthropic
  /\ Len(playlists) = 2
  /\ Len(output["categories.json"]) = 2
  /\ Len(videos) = 2
  /\ \E a \in Range(attempted) : a.found
  /\ output["facts.json"] = <<>>
  /\ output["businesses.json"] = <<>>

\* ---- C5
C5_Step ==
  /\ (output' # output) => (pc = "save" /\ i > Len(videos) /\ Len(attempted) = Len(videos))
  /\ (pc \in PreWrite) => (output' = NoFiles)

\* C5 (amended): none of the six files is written before the loop has
\* finished for every processed video: a run that stops while listing or
\* inside the loop has written no file, and every file write happens at the
\* write step, after the last video.  (The output directory itself is made
\* at the start of the run.)
C5_NoFileBeforeLoopEnds ==
  [][C5_Step]_vars /\ [](pc \in PreWrite => output = NoFiles)

C5_Witness ==
  /\ pc \in {"killed", "crashed"}
  /\ output = NoFiles
  /\ out_dir = "created"
  /\ Len(attempted) = 2
  /\ llm_calls # <<>>

\* C5 (as stated): a run that stops while listing or inside the loop leaves
\* no output at all: no file, and nothing created at the output location.
C5_Original ==
  [][(pc \in PreWrite /\ pc' \in {"killed", "crashed"})
       => (output' = NoFiles /\ out_dir' # "created")]_vars

\* ---- C6
CategoryNames == [k \in 1..Len(CATEGORY_KEYWORDS) |-> CATEGORY_KEYWORDS[k].category]

Hit(k, text) ==
  \E j \in 1..Len(CATEGORY_KEYWORDS[k].keywords) :
    Contains(text, CATEGORY_KEYWORDS[k].keywords[j])

HitCategories(text) == { k \in 1..Len(CATEGORY_KEYWORDS) : Hit(k, text) }

InferText == Lower(CurrentVideo.title \o <<" ">> \o CurrentVideo.description)

\* C6: _infer_category returns the first category of the table, in the order
\* winter_survival, building, fishing, camping, cooking, gear, alaska, family,
\* one of whose keywords occurs in the lower-cased title + ' ' + description,
\* and 'general' when none does.
C6_FirstMatchWins ==
  /\ CategoryNames = <<"winter_survival", "building", "fishing", "camping",
                       "cooking", "gear", "alaska", "family">>
  /\ (pc = "inferred")
       => /\ (HitCategories(InferText) = {}) => (category = "general")
          /\ \A k \in HitCategories(InferText) :
               (\A m \in HitCategories(InferText) : k <= m)
                 => category = CategoryNames[k]

C6_Witness ==
  /\ pc = "inferred"
  /\ Cardinality(HitCategories(InferText)) >= 2
  /\ Hit(1, Lower(CurrentVideo.description))
  /\ ~Hit(1, Lower(CurrentVideo.title))
  /\ category = "winter_survival"

\* ---- C7
SurvivalTips(facts, v) ==
  { k \in 1..Len(facts) : facts[k].type = "survival_tip" /\ facts[k].videoId = v }

AllTipsReturned ==
  \A k \in 1..Len(videos) :
    [video_id |-> k, call |-> "facts", reply |-> "dict"] \in Range(llm_calls)

\* C7 (amended): every survival_tip record has the category inferred from its
\* source video's title and description together; when the model returns one
\* survival tip for every video, facts.json holds exactly one survival_tip
\* record per processed video.
C7_TipCategoryFromTitleAndDescription ==
  /\ \A f \in Range(all_facts) :
       f.type = "survival_tip"
         => f.category = _infer_category(videos[f.videoId].title,
                                         videos[f.videoId].description)
  /\ (pc = "done")
       => /\ output["facts.json"] = all_facts
          /\ AllTipsReturned
               => \A k \in 1..Len(videos) :
                    Cardinality(SurvivalTips(output["facts.json"], k)) = 1

C7_Witness ==
  /\ pc = "done"
  /\ Len(videos) = 2
  /\ AllTipsReturned
  /\ \E f \in Range(output["facts.json"]) :
       /\ f.type = "survival_tip"
       /\ f.category = "fishing"
       /\ _infer_category(f.videoTitle, <<>>) = "general"

\* C7 (as stated): every survival_tip record has the category inferred from
\* its source video's title.
C7_Original ==
  \A f \in Range(all_facts) :
    f.type = "survival_tip" => f.category = _infer_category(f.videoTitle, <<>>)

\* ---- C8
IsGear(f) == f.type = "gear"
GearEntries == Iter(Get(extracted, k_gear_recommendations, JList(<<>>)))
RecipeEntries == Iter(Get(extracted, k_recipes, JList(<<>>)))
NewGear == SelectSeq(SubSeq(all_facts', Len(all_facts) + 1, Len(all_facts')), IsGear)
NewRecipes == SubSeq(all_recipes', Len(all_recipes) + 1, Len(all_recipes'))

C8_GearStep ==
  /\ Len(NewGear) = Len(GearEntries)
  /\ \A k \in 1..Len(GearEntries) :
       GearEntries[k].t # "dict"
         => /\ NewGear[k].content = PyStr(GearEntries[k])
            /\ NewGear[k].id = generate_id(PyStr(GearEntries[k]))

\* C8 (amended): every entry of gear_recommendations, mapping or not, becomes
\* one gear fact, a non-mapping entry with its string form as content; of the
\* recipes list only the mappings become recipe records, an entry that is no
\* mapping is skipped.
C8_GearCoercedRecipesSkipped ==
  [][(pc = "aggregate" /\ pc' = "describe")
       => /\ C8_GearStep
          /\ Len(NewRecipes)
               = Cardinality({ k \in 1..Len(RecipeEntries) : RecipeEntries[k].t = "dict" })]_vars

C8_Witness ==
  /\ pc = "describe"
  /\ \E f \in Range(all_facts) : f.type = "gear" /\ f.content = <<"5">>
  /\ \E f \in Range(all_facts) : f.type = "gear" /\ f.content = s_None
  /\ Len(all_recipes) = 2
  /\ Len(RecipeEntries) = 3

\* C8 (as stated): every entry of gear_recommendations and of recipes becomes
\* one record, so as many records are appended as the lists have entries.
C8_Original ==
  [][(pc = "aggregate" /\ pc' = "describe")
       => /\ C8_GearStep
          /\ Len(NewRecipes) = Len(RecipeEntries)]_vars

\* ---- C9
\* C9: every record's id is generate_id of its own designated text: content
\* for facts, punchline for jokes, name for recipes and businesses.
C9_IdIsHashOfOwnText ==
  /\ \A f \in Range(all_facts) : f.id = generate_id(f.content)
  /\ \A j \in Range(all_jokes) : j.id = generate_id(j.punchline)
  /\ \A r \in Range(all_recipes) : r.name.t = "str" /\ r.id = generate_id(r.name.s)
  /\ \A b \in Range(all_businesses) : b.name.t = "str" /\ b.id = generate_id(b.name.s)

\* ---- C10
IsPrefix(s, u) == Len(s) <= Len(u) /\ s = SubSeq(u, 1, Len(s))

\* C10: no more than max-videos videos are processed (none when max-videos
\* is negative), the processed videos are a prefix of the uploads list, and
\* totalVideos counts them all.
C10_AtMostMaxVideos ==
  (pc \notin {"main", "killed", "crashed"})
    => /\ Len(attempted) <= (IF max_videos < 0 THEN 0 ELSE max_videos)
       /\ IsPrefix(videos, uploads)
       /\ \A k \in 1..Len(attempted) : attempted[k].video_id = videos[k].video_id
       /\ ("metadata.json" \in DOMAIN output)
            => /\ output["metadata.json"].totalVideos = Len(videos)
               /\ output["metadata.json"].totalVideos = Len(attempted)

====
